---- MODULE Spec2Model ----
(***************************************************************************)
(* Job lifecycle and dispatch engine of sparrow-realtime.                  *)
(*                                                                         *)
(* JobService (src/services/job_service.rs) over CacheService              *)
(* (src/services/cache_service.rs) and IdGenerator                         *)
(* (src/utils/id_generator.rs).  Strings are sequences of one-character    *)
(* strings, so that identifiers can be formatted, split and parsed, and    *)
(* cache keys can be built, the way the code does it.                      *)
(*                                                                         *)
(* Time is counted in seconds; the clock advances one hour at a time.       *)
(***************************************************************************)
EXTENDS Integers, Sequences, FiniteSets, TLC

\* ------------------------------------------------------------------------
\* Bounds of the model
\* ------------------------------------------------------------------------
MaxTicks == 1
MaxJobs == 1
MaxWrites == 3

\* ------------------------------------------------------------------------
\* Option values: None is the empty tuple, Some(x) the one-element tuple
\* ------------------------------------------------------------------------
None == <<>>
Some(x) == <<x>>
IsSome(o) == o # <<>>
Unwrap(o) == o[1]

\* ------------------------------------------------------------------------
\* Strings
\* ------------------------------------------------------------------------
DigitChars == <<"0", "1", "2", "3", "4", "5", "6", "7", "8", "9">>

IsDigit(c) == \E i \in 1..10 : DigitChars[i] = c

DigitVal(c) == (CHOOSE i \in 1..10 : DigitChars[i] = c) - 1

\* format!("{:02}") of a number below 100, as strftime's %y, %m and %d do
Format2(n) == <<DigitChars[(n \div 10) + 1], DigitChars[(n % 10) + 1]>>

RECURSIVE SplitFrom(_, _, _)
\* str::split('-'): the fields between the separators, empty fields kept
SplitFrom(s, i, cur) ==
  IF i > Len(s) THEN <<cur>>
  ELSE IF s[i] = "-" THEN <<cur>> \o SplitFrom(s, i + 1, <<>>)
  ELSE SplitFrom(s, i + 1, Append(cur, s[i]))

Split(s) == SplitFrom(s, 1, <<>>)

RECURSIVE DigitsVal(_, _)
DigitsVal(s, acc) ==
  IF s = <<>> THEN acc ELSE DigitsVal(Tail(s), acc * 10 + DigitVal(Head(s)))

AllDigits(s) == \A i \in 1..Len(s) : IsDigit(s[i])

\* str::parse::<u32>(): an optional leading '+', then at least one digit
ParseU32(s) ==
  LET body == IF s # <<>> /\ Head(s) = "+" THEN Tail(s) ELSE s
  IN  IF body # <<>> /\ AllDigits(body) THEN Some(DigitsVal(body, 0)) ELSE None

\* str::parse::<i32>(): an optional leading '+' or '-', then digits
ParseI32(s) ==
  LET signed == s # <<>> /\ Head(s) \in {"+", "-"}
      body == IF signed THEN Tail(s) ELSE s
  IN  IF body # <<>> /\ AllDigits(body)
      THEN Some(IF signed /\ Head(s) = "-" THEN 0 - DigitsVal(body, 0)
                ELSE DigitsVal(body, 0))
      ELSE None

\* Characters outside ASCII, each one element of a string: U+00E9 (e with
\* acute accent, two bytes in UTF-8) and U+20AC (the euro sign, three)
EAcute == "U+00E9"
EuroSign == "U+20AC"

\* char::len_utf8
len_utf8(c) == CASE c = EAcute -> 2 [] c = EuroSign -> 3 [] OTHER -> 1

\* The characters of the model that take more than one byte
MultiByteChars == {EAcute, EuroSign}

RECURSIVE ByteLenFrom(_, _)
ByteLenFrom(s, i) ==
  IF i > Len(s) THEN 0 ELSE len_utf8(s[i]) + ByteLenFrom(s, i + 1)

\* str::len: the length in bytes
ByteLen(s) ==
  IF \A i \in 1..Len(s) : s[i] \notin MultiByteChars THEN Len(s)
  ELSE ByteLenFrom(s, 1)

\* str::is_char_boundary
is_char_boundary(s, index) ==
  \E k \in 0..Len(s) : ByteLen(SubSeq(s, 1, k)) = index

\* The outcome of a call that panicked
Panic == <<"panic", "unwind">>

\* &s[begin..end] for end within the string: the characters between two
\* byte offsets (which are character offsets in a string of one-byte
\* characters), a panic when an offset is inside a character
ByteSlice(s, begin, end) ==
  IF \A i \in 1..Len(s) : s[i] \notin MultiByteChars
  THEN SubSeq(s, begin + 1, end)
  ELSE IF is_char_boundary(s, begin) /\ is_char_boundary(s, end)
  THEN LET first == CHOOSE k \in 0..Len(s) : ByteLen(SubSeq(s, 1, k)) = begin
           last_ == CHOOSE k \in 0..Len(s) : ByteLen(SubSeq(s, 1, k)) = end
       IN  SubSeq(s, first + 1, last_)
  ELSE Panic

\* ------------------------------------------------------------------------
\* IdGenerator
\* ------------------------------------------------------------------------
IdTypes == {"User", "Driver", "Job", "Vehicle", "Payment", "Address",
            "Notification", "SupportTicket", "Verification", "Reward"}

to_prefix(t) ==
  CASE t = "User" -> <<"u", "s", "r">>
    [] t = "Driver" -> <<"d", "r", "v">>
    [] t = "Job" -> <<"j", "o", "b">>
    [] t = "Vehicle" -> <<"v", "e", "h">>
    [] t = "Payment" -> <<"p", "a", "y">>
    [] t = "Address" -> <<"a", "d", "d">>
    [] t = "Notification" -> <<"n", "o", "t">>
    [] t = "SupportTicket" -> <<"t", "i", "c">>
    [] t = "Verification" -> <<"v", "e", "r">>
    [] t = "Reward" -> <<"r", "e", "w">>

HEX_CHARS ==
  <<"0", "1", "2", "3", "4", "5", "6", "7", "8", "9", "a", "b", "c", "d", "e", "f">>

ALPHANUMERIC_CHARS ==
  <<"A", "B", "C", "D", "E", "F", "G", "H", "I", "J", "K", "L", "M",
    "N", "O", "P", "Q", "R", "S", "T", "U", "V", "W", "X", "Y", "Z",
    "a", "b", "c", "d", "e", "f", "g", "h", "i", "j", "k", "l", "m",
    "n", "o", "p", "q", "r", "s", "t", "u", "v", "w", "x", "y", "z",
    "0", "1", "2", "3", "4", "5", "6", "7", "8", "9">>

\* The values rng.gen_range draws where identifiers are generated for the
\* services (any index below the charset's length is possible; these are
\* the ones explored)
RngDraws == {10}

\* The values rng.gen_range draws where the suffix itself is examined: the
\* first index, one that is a letter in both charsets, and the last index
\* of the longer charset
SuffixDraws == {0, 10, 61}

\* generate_from_chars: every string of n characters of charset at drawn
\* indices
generate_from_chars(draws, charset, n) ==
  LET idx == {i \in draws : i < Len(charset)}
  IN  {[k \in 1..n |-> charset[f[k] + 1]] : f \in [1..n -> idx]}

generate_hex_chars(draws, n) == generate_from_chars(draws, HEX_CHARS, n)

generate_alphanumeric_chars(draws, n) ==
  generate_from_chars(draws, ALPHANUMERIC_CHARS, n)

\* generate_random_suffix: the set of suffixes one call may return when
\* rand::random::<bool>() returns coin and the indices drawn are in draws
RandomSuffixes(draws, coin) ==
  IF coin
  THEN {h \o a : h \in generate_hex_chars(draws, 3),
                 a \in generate_alphanumeric_chars(draws, 2)}
  ELSE {a \o h : a \in generate_alphanumeric_chars(draws, 3),
                 h \in generate_hex_chars(draws, 2)}

generate_random_suffix(coin) == RandomSuffixes(RngDraws, coin)

\* The calendar date of a day counted from 1970-01-01 (the proleptic
\* Gregorian calendar that chrono uses)
CivilFromDays(z) ==
  LET zz == z + 719468
      era == zz \div 146097
      doe == zz - era * 146097
      yoe == (doe - doe \div 1460 + doe \div 36524 - doe \div 146096) \div 365
      doy == doe - (365 * yoe + yoe \div 4 - yoe \div 100)
      mp == (5 * doy + 2) \div 153
      d == doy - (153 * mp + 2) \div 5 + 1
      m == IF mp < 10 THEN mp + 3 ELSE mp - 9
  IN  [year |-> yoe + era * 400 + (IF m <= 2 THEN 1 ELSE 0), month |-> m, day |-> d]

\* The day, counted from 1970-01-01, of a calendar date
DaysFromCivil(y, m, d) ==
  LET yy == IF m <= 2 THEN y - 1 ELSE y
      era == yy \div 400
      yoe == yy - era * 400
      doy == (153 * (IF m > 2 THEN m - 3 ELSE m + 9) + 2) \div 5 + d - 1
      doe == yoe * 365 + yoe \div 4 - yoe \div 100 + doy
  IN  era * 146097 + doe - 719468

\* The UTC calendar date at clock value t, in seconds since 23:00 UTC on
\* 2024-12-31 (so that the date changes within the first tick)
DateAt(t) ==
  CivilFromDays(DaysFromCivil(2024, 12, 31) + (23 * 3600 + t) \div 86400)

\* A date format with the day first ("%d%m%y")
FormatDateDayFirst(date) ==
  Format2(date.day) \o Format2(date.month) \o Format2(date.year % 100)

\* A date format without zero padding of the month and the day ("%y%-m%-d")
FormatDateUnpadded(date) ==
  LET Unpadded(n) == IF n < 10 THEN <<DigitChars[n + 1]>> ELSE Format2(n)
  IN  Format2(date.year % 100) \o Unpadded(date.month) \o Unpadded(date.day)

\* timestamp.format("%y%m%d")
FormatDate(date) ==
  Format2(date.year % 100) \o Format2(date.month) \o Format2(date.day)

\* generate_with_timestamp for a timestamp on the calendar date date, for
\* one outcome of the random suffix
generate_on(id_type, date, suffix) ==
  to_prefix(id_type) \o <<"-">> \o FormatDate(date) \o <<"-">> \o suffix

\* generate_with_timestamp for the timestamp at clock value t
generate_with_timestamp(id_type, t, suffix) ==
  generate_on(id_type, DateAt(t), suffix)

\* parse_id: None, or Some of the parsed fields
parse_id(id) ==
  LET parts == Split(id)
  IN  IF Len(parts) # 3 THEN None
      ELSE
        LET prefix == parts[1]
            date_part == parts[2]
            random_suffix == parts[3]
        IN  IF ByteLen(date_part) # 6 \/ ByteLen(random_suffix) # 5 THEN None
            ELSE IF ~(\E t \in IdTypes : to_prefix(t) = prefix) THEN None
            ELSE
              LET id_type == CHOOSE t \in IdTypes : to_prefix(t) = prefix
                  year_digits == ByteSlice(date_part, 0, 2)
                  year == ParseI32(<<"2", "0">> \o year_digits)
                  month_digits == ByteSlice(date_part, 2, 4)
                  month == ParseU32(month_digits)
                  day_digits == ByteSlice(date_part, 4, 6)
                  day == ParseU32(day_digits)
              IN  IF year_digits = Panic THEN Panic
                  ELSE IF year = None THEN None
                  ELSE IF month_digits = Panic THEN Panic
                  ELSE IF month = None THEN None
                  ELSE IF day_digits = Panic THEN Panic
                  ELSE IF day = None THEN None
                  ELSE IF Unwrap(month) < 1 \/ Unwrap(month) > 12
                          \/ Unwrap(day) < 1 \/ Unwrap(day) > 31 THEN None
                  ELSE Some([id_type |-> id_type, year |-> Unwrap(year),
                             month |-> Unwrap(month), day |-> Unwrap(day),
                             random_suffix |-> random_suffix])

\* A validation that looks at the format only, whatever kind is expected
ValidateParsedAnyKind(parsed, expected_type) == parsed # None

\* validate_id(id, expected_type), given the result of parse_id(id);
\* expected_type is None or Some of a kind
ValidateParsed(parsed, expected_type) ==
  IF parsed = None THEN FALSE
  ELSE IF IsSome(expected_type) THEN Unwrap(parsed).id_type = Unwrap(expected_type)
  ELSE TRUE

\* ------------------------------------------------------------------------
\* Cache keys
\* ------------------------------------------------------------------------
RECURSIVE Join(_)
\* parts.join(":")
Join(parts) ==
  IF Len(parts) = 1 THEN parts[1]
  ELSE parts[1] \o <<":">> \o Join(Tail(parts))

\* CacheKey::Simple(s).to_string()
SimpleKey(s) == s

\* CacheKey::Composite(parts).to_string()
CompositeKey(parts) == Join(parts)

job_by_id(job_id) == CompositeKey(<<<<"j", "o", "b">>, <<"i", "d">>, job_id>>)

driver_by_id(driver_id) ==
  CompositeKey(<<<<"d", "r", "i", "v", "e", "r">>, <<"i", "d">>, driver_id>>)

jobs_by_customer(customer_id) ==
  CompositeKey(<<<<"j", "o", "b", "s">>,
                 <<"c", "u", "s", "t", "o", "m", "e", "r">>, customer_id>>)

jobs_by_driver(driver_id) ==
  CompositeKey(<<<<"j", "o", "b", "s">>,
                 <<"d", "r", "i", "v", "e", "r">>, driver_id>>)

\* ------------------------------------------------------------------------
\* Sample inputs
\* ------------------------------------------------------------------------
Driver1 == <<"d", "r", "v", "-", "2", "4", "0", "1", "0", "1", "-", "a", "1", "b", "2", "c">>
Driver2 == <<"d", "r", "v", "-", "2", "4", "0", "1", "0", "1", "-", "f", "f", "X", "Y", "Z">>
\* well-formed, but a user id where a driver id is expected
NotADriverId == <<"u", "s", "r", "-", "2", "4", "0", "1", "0", "1", "-", "a", "1", "b", "2", "c">>
\* month 13, day 32
BadJobId == <<"j", "o", "b", "-", "2", "3", "1", "3", "3", "2", "-", "a", "b", "c", "d", "e">>
\* well-formed, and the id of no job that was ever created
UnknownJobId == <<"j", "o", "b", "-", "2", "4", "0", "1", "0", "1", "-", "a", "b", "c", "d", "e">>
Customer1 == <<"u", "s", "r", "-", "2", "4", "0", "1", "0", "1", "-", "a", "1", "b", "2", "c">>

Customers == {Customer1}

\* The clock values of the model
ClockValues == {k * 3600 : k \in 0..MaxTicks}

\* The suffixes that one call of generate_random_suffix may return
Suffixes == generate_random_suffix(TRUE) \cup generate_random_suffix(FALSE)

\* The identifiers that occur as arguments in the model
\* Hand-written identifiers:
\*   "job-240101-abcde"     well-formed
\*   "job-231332-abcde"     month 13, day 32
\*   "job-240001-abcde"     month 0
\*   "job-240100-abcde"     day 0
\*   "job-24+1+1-abcde"     signs in the month and day
\*   "job-24-1-1-abcde"     "-" in the date: five fields
\*   "job-2a0101-abcde"     a letter in the year
\*   "job-24011-abcde"      date of five characters
\*   "job-240101-abcd"      suffix of four characters
\*   "job-240101-abcdef"    suffix of six characters
\*   "xyz-240101-abcde"     unknown prefix
\*   "job-240101"           two fields
\*   "job-240101-abcde-x"   four fields
\*   ""                     empty
\*   "invalid-format"       the invalid id of test_validation
\*   "usr-231207-a1b2c"     the valid id of test_validation
IdStrings ==
  {<<"j", "o", "b", "-", "2", "4", "0", "1", "0", "1", "-", "a", "b", "c", "d", "e">>,
   <<"j", "o", "b", "-", "2", "3", "1", "3", "3", "2", "-", "a", "b", "c", "d", "e">>,
   <<"j", "o", "b", "-", "2", "4", "0", "0", "0", "1", "-", "a", "b", "c", "d", "e">>,
   <<"j", "o", "b", "-", "2", "4", "0", "1", "0", "0", "-", "a", "b", "c", "d", "e">>,
   <<"j", "o", "b", "-", "2", "4", "+", "1", "+", "1", "-", "a", "b", "c", "d", "e">>,
   <<"j", "o", "b", "-", "2", "4", "-", "1", "-", "1", "-", "a", "b", "c", "d", "e">>,
   <<"j", "o", "b", "-", "2", "a", "0", "1", "0", "1", "-", "a", "b", "c", "d", "e">>,
   <<"j", "o", "b", "-", "2", "4", "0", "1", "1", "-", "a", "b", "c", "d", "e">>,
   <<"j", "o", "b", "-", "2", "4", "0", "1", "0", "1", "-", "a", "b", "c", "d">>,
   <<"j", "o", "b", "-", "2", "4", "0", "1", "0", "1", "-", "a", "b", "c", "d", "e", "f">>,
   <<"x", "y", "z", "-", "2", "4", "0", "1", "0", "1", "-", "a", "b", "c", "d", "e">>,
   <<"j", "o", "b", "-", "2", "4", "0", "1", "0", "1">>,
   <<"j", "o", "b", "-", "2", "4", "0", "1", "0", "1", "-", "a", "b", "c", "d", "e", "-", "x">>,
   <<>>,
   <<"i", "n", "v", "a", "l", "i", "d", "-", "f", "o", "r", "m", "a", "t">>,
   <<"u", "s", "r", "-", "2", "3", "1", "2", "0", "7", "-", "a", "1", "b", "2", "c">>}

\* Job identifiers whose date field is six bytes long and holds:
\*   e-acute over bytes 1..3: the year slice ends inside it
\*   e-acute over bytes 2..4: no slice cuts it
\*   e-acute over bytes 3..5: the month slice ends inside it
\*   e-acute over bytes 4..6: no slice cuts it
\*   euro sign over bytes 0..3: the year slice ends inside it
\*   euro sign over bytes 3..6: the month slice ends inside it
\*   three e-acute: no slice cuts one
\*   ASCII digits
\* and one whose suffix is five bytes long with a euro sign in it
MultiByteIds ==
  {<<"j", "o", "b", "-", "2", "U+00E9", "1", "2", "3", "-", "a", "b", "c", "d", "e">>,
   <<"j", "o", "b", "-", "2", "0", "U+00E9", "1", "2", "-", "a", "b", "c", "d", "e">>,
   <<"j", "o", "b", "-", "2", "0", "1", "U+00E9", "2", "-", "a", "b", "c", "d", "e">>,
   <<"j", "o", "b", "-", "2", "0", "1", "2", "U+00E9", "-", "a", "b", "c", "d", "e">>,
   <<"j", "o", "b", "-", "U+20AC", "1", "0", "1", "-", "a", "b", "c", "d", "e">>,
   <<"j", "o", "b", "-", "2", "4", "0", "U+20AC", "-", "a", "b", "c", "d", "e">>,
   <<"j", "o", "b", "-", "U+00E9", "U+00E9", "U+00E9", "-", "a", "b", "c", "d", "e">>,
   <<"j", "o", "b", "-", "2", "4", "0", "1", "0", "1", "-", "a", "b", "c", "d", "e">>,
   <<"j", "o", "b", "-", "2", "4", "0", "1", "0", "1", "-", "a", "U+20AC", "b">>}

IdUniverse ==
  {generate_with_timestamp("Job", t, s) : t \in ClockValues, s \in Suffixes}
    \cup {BadJobId, UnknownJobId, Driver1, Driver2, NotADriverId}
    \cup IdStrings \cup MultiByteIds

\* parse_id, evaluated once for each identifier of the model
ParsedIds == [id \in IdUniverse |-> parse_id(id)]

\* parse_id(id), looked up where it has been evaluated
ParsedId(id) == IF id \in IdUniverse THEN ParsedIds[id] ELSE parse_id(id)

\* validate_id(id, expected_type)
validate_id_as(id, expected_type) == ValidateParsed(ParsedId(id), expected_type)

\* A validation that accepts a well-formed id of any kind
validate_id_of_any_kind(id, expected) == validate_id_as(id, None)

\* validate_id(id, Some(expected))
validate_id(id, expected) == validate_id_as(id, Some(expected))
Drivers == {Driver1, Driver2}
DriverIdInputs == Drivers \cup {NotADriverId}
\* the driver_id of a JobStatusUpdate that carries one
UpdateDriverInputs == {Some(Driver2), Some(NotADriverId)}
\* the status of a JobStatusUpdate: a step forward, a step that skips
\* statuses, a step backwards and a terminal status are all among them
StatusInputs == {"Pending", "DriverAssigned", "DriverEnRoute",
                 "PackagePickedUp", "DeliveryCompleted", "Cancelled"}
\* the status of a JobStatusUpdate that carries a driver_id
StatusWithDriverInputs == {"Pending", "DriverEnRoute"}
NotesInputs == {Some("call on arrival")}
ReasonInputs == {None, Some("customer request")}

\* ------------------------------------------------------------------------
\* Job model
\* ------------------------------------------------------------------------
JobStatuses == {"Pending", "Searching", "DriverAssigned", "DriverEnRoute",
                "ArrivedAtPickup", "PackagePickedUp", "InTransit",
                "ArrivedAtDropoff", "DeliveryCompleted", "Cancelled",
                "Failed", "Expired"}

\* JobService::to_response: the fields of Job that JobResponse carries
to_response(job) ==
  [id |-> job.id, customer_id |-> job.customer_id, driver_id |-> job.driver_id,
   status |-> job.status, priority |-> job.priority,
   pickup_location |-> job.pickup_location,
   dropoff_location |-> job.dropoff_location,
   estimated_distance_km |-> job.estimated_distance_km,
   estimated_duration_min |-> job.estimated_duration_min,
   package |-> job.package, created_at |-> job.created_at,
   pickup_time |-> job.pickup_time, dropoff_time |-> job.dropoff_time,
   pricing |-> job.pricing, payment_status |-> job.payment_status,
   tracking_code |-> job.tracking_code, notes |-> job.notes]

\* ------------------------------------------------------------------------
\* Requests and pricing.  Distances are in metres and amounts of money in
\* units of 0.00001 GHS, so that the rates of calculate_pricing (2.5 GHS per
\* km, 0.2 GHS per minute, 10 % and 3 %) are whole numbers.
\* ------------------------------------------------------------------------
\* f64: a finite number, or NaN
Finite(v) == [class |-> "finite", value |-> v]
NaN == [class |-> "nan", value |-> 0]

\* The sum of two f64
FAdd(x, y) ==
  IF x = NaN \/ y = NaN THEN NaN ELSE Finite(x.value + y.value)

\* The product of an f64 and the constant num / den
FScale(x, num, den) ==
  IF x = NaN THEN NaN ELSE Finite((x.value * num) \div den)

\* x > y and x == y on f64: false when either is NaN
FGt(x, y) == x # NaN /\ y # NaN /\ x.value > y.value
FEq(x, y) == x # NaN /\ y # NaN /\ x.value = y.value

\* Location: latitude and longitude in units of 0.0001 degree
Accra == [latitude |-> 56037, longitude |-> -1870]
Tema == [latitude |-> 56698, longitude |-> -166]
Kumasi == [latitude |-> 66885, longitude |-> -16244]
\* Two points opposite each other on the globe: 12 N 0 E and 12 S 180 E
Greenwich12N == [latitude |-> 120000, longitude |-> 0]
Antimeridian12S == [latitude |-> -120000, longitude |-> 1800000]

\* calculate_distance_km: the haversine distance on a sphere of radius
\* 6371 km, tabulated to 10 m for the locations of the model.  Between
\* the two opposite points a = sin(12 deg)^2 + cos(12 deg)^2 evaluates to
\* 1.0000000000000002 in f64, (1.0 - a).sqrt() is NaN and so is the
\* distance.
calculate_distance_km(loc1, loc2) ==
  CASE loc1 = loc2 -> Finite(0)
    [] {loc1, loc2} = {Accra, Tema} -> Finite(20240)
    [] {loc1, loc2} = {Accra, Kumasi} -> Finite(199510)
    [] {loc1, loc2} = {Tema, Kumasi} -> Finite(210770)
    [] {loc1, loc2} = {Greenwich12N, Antimeridian12S} -> NaN

\* calculate_duration_min: minutes at 30 km/h, truncated by the cast to
\* i32, which turns NaN into 0
calculate_duration_min(distance) ==
  IF distance = NaN THEN 0 ELSE (distance.value * 60) \div (30 * 1000)

JobPriorities == {"Standard", "Express", "SameDay", "Emergency"}

PackageTypes == {"Document", "SmallPackage", "MediumPackage", "LargePackage",
                 "ExtraLarge", "Food", "Grocery", "Pharmacy", "Electronics",
                 "Fragile"}

\* The base fare of a priority
BaseFare(priority) ==
  CASE priority = "Standard" -> Finite(1500000)
    [] priority = "Express" -> Finite(2500000)
    [] priority = "SameDay" -> Finite(4000000)
    [] priority = "Emergency" -> Finite(6000000)

\* The surcharge of a package type
PackageSurcharge(package_type) ==
  CASE package_type = "Document" -> Finite(0)
    [] package_type = "SmallPackage" -> Finite(500000)
    [] package_type = "MediumPackage" -> Finite(1000000)
    [] package_type = "LargePackage" -> Finite(2000000)
    [] package_type = "ExtraLarge" -> Finite(4000000)
    [] package_type = "Food" -> Finite(800000)
    [] package_type = "Grocery" -> Finite(1500000)
    [] package_type = "Pharmacy" -> Finite(500000)
    [] package_type = "Electronics" -> Finite(1500000)
    [] package_type = "Fragile" -> Finite(1200000)

\* The surcharge of a priority
PrioritySurcharge(priority) ==
  CASE priority = "Standard" -> Finite(0)
    [] priority = "Express" -> Finite(1000000)
    [] priority = "SameDay" -> Finite(2500000)
    [] priority = "Emergency" -> Finite(5000000)

\* The subtotal of calculate_pricing
Subtotal(base_fare, distance_fare, time_fare, package_sur, priority_sur) ==
  FAdd(FAdd(FAdd(FAdd(base_fare, distance_fare), time_fare), package_sur),
       priority_sur)

\* calculate_pricing
calculate_pricing(request) ==
  LET distance_km == calculate_distance_km(request.pickup_location,
                                           request.dropoff_location)
      duration_min == calculate_duration_min(distance_km)
      base_fare == BaseFare(request.priority)
      distance_fare == FScale(distance_km, 250, 1)
      time_fare == FScale(Finite(duration_min), 20000, 1)
      package_surcharge == PackageSurcharge(request.package.package_type)
      priority_surcharge == PrioritySurcharge(request.priority)
      subtotal == Subtotal(base_fare, distance_fare, time_fare,
                           package_surcharge, priority_surcharge)
      service_fee == FScale(subtotal, 1, 10)
      tax == FScale(subtotal, 3, 100)
      total == FAdd(FAdd(subtotal, service_fee), tax)
  IN  [base_fare |-> base_fare, distance_fare |-> distance_fare,
       time_fare |-> time_fare, package_surcharge |-> package_surcharge,
       priority_surcharge |-> priority_surcharge, service_fee |-> service_fee,
       tax |-> tax, total |-> total, currency |-> "GHS",
       estimated_cost |-> TRUE]

\* JobRequest
JobRequest(customer_id, pickup, dropoff, package_type, priority, notes) ==
  [customer_id |-> customer_id, pickup_location |-> pickup,
   dropoff_location |-> dropoff, package |-> [package_type |-> package_type],
   priority |-> priority, payment_method_id |-> "pm-1", notes |-> notes]

\* JobEstimateRequest
JobEstimateRequest(pickup, dropoff, package_type, priority) ==
  [pickup_location |-> pickup, dropoff_location |-> dropoff,
   package |-> [package_type |-> package_type], priority |-> priority]

\* The JobEstimateRequest that create_job builds from its request
EstimateRequestOf(request) ==
  [pickup_location |-> request.pickup_location,
   dropoff_location |-> request.dropoff_location,
   package |-> request.package, priority |-> request.priority]

\* The pickup and dropoff points of the priced requests: a delivery within
\* one place, within Greater Accra, between cities, and between the two
\* opposite points
Routes ==
  {<<Accra, Accra>>, <<Accra, Tema>>, <<Kumasi, Accra>>, <<Tema, Kumasi>>,
   <<Greenwich12N, Antimeridian12S>>}

\* The requests that calculate_estimate is given
EstimateRequests ==
  {JobEstimateRequest(r[1], r[2], pt, pr) :
     r \in Routes, pt \in PackageTypes, pr \in JobPriorities}

\* The requests that create_job is given where pricing is examined
PricedRequests ==
  {JobRequest(Customer1, r[1], r[2], pt, pr, None) :
     r \in Routes, pt \in {"Fragile"}, pr \in {"Standard", "Emergency"}}

\* The requests that create_job is given
Requests ==
  {JobRequest(c, Accra, Tema, "SmallPackage", "Standard", n) :
     c \in Customers, n \in NotesInputs}

RECURSIVE Replace(_, _, _)
\* str::replace(from, to): every non-overlapping occurrence of from, found
\* from the left, becomes to
Replace(s, from, to) ==
  IF Len(s) < Len(from) THEN s
  ELSE IF SubSeq(s, 1, Len(from)) = from
  THEN to \o Replace(SubSeq(s, Len(from) + 1, Len(s)), from, to)
  ELSE <<Head(s)>> \o Replace(Tail(s), from, to)

\* ------------------------------------------------------------------------
\* State
\* ------------------------------------------------------------------------
VARIABLES
  backend,     \* "Redis" (CacheService::new) or "Memory" (CacheService::new_memory)
  now,         \* Utc::now(), seconds since the start of the model's clock
  job_cache,   \* CacheService.job_cache: key -> [val, exp]
  user_cache,  \* CacheService.user_cache: key -> [val, exp]
  sets,        \* the Redis sets behind SADD/SREM/SMEMBERS: key -> set of members
  last,        \* the last call: operation, arguments, record read, outcome
  writes,      \* the number of writes of job records by JobService so far
  tasks        \* the calls in progress, one per concurrent caller

vars == <<backend, now, job_cache, user_cache, sets, last, writes, tasks>>

JobTtlSeconds == 3600
UserTtlSeconds == 604800
AcceptanceWindowHours == 2

\* An entry is readable until its TTL has passed: Redis drops the key once
\* ttl seconds have passed, MemoryCache::is_expired tests Utc::now() > expiry
Live(e) == IF backend = "Redis" THEN now < e.exp ELSE ~(now > e.exp)

\* CacheOperations::get
CacheGet(cache, key) ==
  IF key \in DOMAIN cache /\ Live(cache[key]) THEN Some(cache[key].val) ELSE None

\* The first instant after the last clock value of the model: an expiry
\* at or after it is never reached, and is recorded as this instant
EndOfTime == MaxTicks * 3600 + 1

\* serde_json::to_string of an f64: a NaN is written as null
JsonNull == [class |-> "null", value |-> 0]
f64_to_json(x) == IF x = NaN THEN JsonNull ELSE x

\* serde_json::to_string of a Job, as far as it changes the value
JobToJson(job) ==
  LET pricing == job.pricing
  IN  [job EXCEPT
         !.estimated_distance_km = f64_to_json(job.estimated_distance_km),
         !.pricing =
           [f \in DOMAIN pricing |->
              IF f \in {"currency", "estimated_cost"} THEN pricing[f]
              ELSE f64_to_json(pricing[f])]]

\* CacheOperations::set with Some(ttl)
CacheSet(cache, key, val, ttl) ==
  (key :> [val |-> val,
           exp |-> IF now + ttl > EndOfTime THEN EndOfTime ELSE now + ttl]) @@ cache

\* SetOperations::smembers (MemoryCache: always empty)
smembers(key) ==
  IF backend = "Redis" /\ key \in DOMAIN sets THEN sets[key] ELSE {}

\* SetOperations::sadd (MemoryCache: not implemented, a no-op)
sadd(key, value) ==
  IF backend = "Redis" THEN (key :> (smembers(key) \cup {value})) @@ sets ELSE sets

\* SetOperations::srem (MemoryCache: not implemented, a no-op)
srem(key, value) ==
  IF backend = "Redis" /\ key \in DOMAIN sets
  THEN (key :> (sets[key] \ {value})) @@ sets ELSE sets

\* CacheService::get_job
get_job_entry(key) == CacheGet(job_cache, key)

\* A lookup that answers with a driver record for every key
get_user_or_default(key) == Some([id |-> key])

\* CacheService::get_user
get_user(key) == CacheGet(user_cache, key)

\* CacheService::cache_job: the job cache after the write
cache_job(job) ==
  CacheSet(job_cache, job_by_id(job.id), JobToJson(job), JobTtlSeconds)

\* CacheService::cache_customer_job
cache_customer_job(customer_id, job_id) == sadd(jobs_by_customer(customer_id), job_id)

\* CacheService::cache_driver_job
cache_driver_job(driver_id, job_id) == sadd(jobs_by_driver(driver_id), job_id)

\* CacheService::remove_driver_job
remove_driver_job(driver_id, job_id) == srem(jobs_by_driver(driver_id), job_id)

\* CacheService::get_customer_jobs
get_customer_jobs(customer_id) == smembers(jobs_by_customer(customer_id))

\* CacheService::get_driver_jobs
get_driver_jobs(driver_id) == smembers(jobs_by_driver(driver_id))

\* The ids of the job records in the cache, under whatever key
StoredJobIds == {job_cache[k].val.id : k \in DOMAIN job_cache}

\* The well-formed job ids callers pass: those of the jobs created so far
\* (found or not under the key that is read)
JobIdInputs == StoredJobIds

\* The record of a call: its operation and arguments, the record it read,
\* its outcome, repo, the repository operations it performed, in order, and
\* notified, the NotificationService methods it called.  JobService holds
\* a notification_service, and none of its operations calls it.
Call(op, job_id, driver_id, res, read, resp) ==
  [op |-> op, job_id |-> job_id, driver_id |-> driver_id, res |-> res,
   read |-> read, resp |-> resp, repo |-> <<>>, notified |-> <<>>]

\* The record of a call that performed the repository operations ops
Repo(call, ops) == [call EXCEPT !.repo = ops]

\* The concurrent callers of the interleaved specification
NumCallers == 2
Callers == 1..NumCallers

\* A caller's call: where it is suspended, its arguments, the local variable
\* job and its outcome
Task(pc, job_id, driver_id, read, job, res) ==
  [pc |-> pc, job_id |-> job_id, driver_id |-> driver_id, read |-> read,
   job |-> job, res |-> res]

IdleTask == Task("idle", None, None, None, None, None)

Init ==
  /\ tasks = [c \in Callers |-> IdleTask]
  /\ backend \in {"Redis", "Memory"}
  /\ now = 0
  /\ job_cache = <<>>
  /\ user_cache = <<>>
  /\ sets = <<>>
  /\ last = Call("new", None, None, "Ok", None, None)
  /\ writes = 0

\* The entries of a cache that Redis still holds at time t (the HashMap of
\* MemoryCache keeps expired entries, get does not return them)
Unexpired(cache, t) ==
  IF backend = "Redis"
  THEN [k \in {x \in DOMAIN cache : t < cache[x].exp} |-> cache[k]]
  ELSE cache

\* Time passes
Tick ==
  /\ now < MaxTicks * 3600
  /\ now' = now + 3600
  /\ job_cache' = Unexpired(job_cache, now')
  /\ user_cache' = Unexpired(user_cache, now')
  /\ last' = Call("tick", None, None, "Ok", None, None)
  /\ UNCHANGED <<backend, sets, writes, tasks>>

\* The Job that create_job builds from a request (job_service.rs 170-205)
NewJob(request, suffix, tracking_suffix) ==
  LET estimate_request == EstimateRequestOf(request)
      pricing == calculate_pricing(estimate_request)
      distance_km == calculate_distance_km(request.pickup_location,
                                           request.dropoff_location)
      duration_min == calculate_duration_min(distance_km)
  IN    [id |-> generate_with_timestamp("Job", now, suffix),
         customer_id |-> request.customer_id,
         driver_id |-> None,
         status |-> "Pending",
         priority |-> request.priority,
         pickup_location |-> request.pickup_location,
         dropoff_location |-> request.dropoff_location,
         estimated_distance_km |-> distance_km,
         estimated_duration_min |-> duration_min,
         package |-> request.package,
         created_at |-> now,
         accepted_at |-> None,
         pickup_time |-> None,
         dropoff_time |-> None,
         cancelled_at |-> None,
         expires_at |-> now + AcceptanceWindowHours * 3600,
         pricing |-> pricing,
         payment_method_id |-> request.payment_method_id,
         payment_status |-> "Pending",
         tracking_code |->
           Replace(
             generate_with_timestamp("Job", now, tracking_suffix),
             <<"j", "o", "b", "-">>, <<"G", "H">>),
         notes |-> request.notes,
         offered_to_drivers |-> <<>>,
         rejected_by_drivers |-> <<>>,
         updated_at |-> now]

\* JobService::create_job.  suffix is the random suffix of the job id,
\* tracking_suffix that of the id generated for the tracking code: two calls
\* of IdGenerator::generate
CreateJob(request, suffix, tracking_suffix) ==
  /\ writes < MaxWrites
  /\ writes' = writes + 1
  /\ Cardinality(StoredJobIds) < MaxJobs
  /\ LET job == NewJob(request, suffix, tracking_suffix)
     IN  /\ job_cache' = cache_job(job)
         /\ sets' = cache_customer_job(job.customer_id, job.id)
         /\ last' = Repo(Call("create_job", Some(job.id), None, "Ok", None,
                              Some(to_response(job))),
                         <<"cache_job", "cache_customer_job">>)
  /\ UNCHANGED <<backend, now, user_cache, tasks>>

\* CacheService::set_job, called with CacheKey::Simple(id): the only way a
\* record comes to exist under the key that JobService reads.  The value is
\* a job record that JobService has produced.
SetJob(k) ==
  /\ k \in DOMAIN job_cache
  /\ Live(job_cache[k])
  /\ LET job == job_cache[k].val
     IN  /\ job_cache' = CacheSet(job_cache, SimpleKey(job.id), JobToJson(job),
                                  JobTtlSeconds)
         /\ last' = Repo(Call("set_job", Some(job.id), None, "Ok", None, None),
                         <<"set_job">>)
  /\ UNCHANGED <<backend, now, user_cache, sets, writes, tasks>>

\* CacheService::set_user, called with CacheKeys::driver_by_id(id): the
\* driver record that assign_driver_to_job looks up
SetUser(driver_id) ==
  /\ get_user(driver_by_id(driver_id)) = None
  /\ user_cache' = CacheSet(user_cache, driver_by_id(driver_id),
                            [id |-> driver_id], UserTtlSeconds)
  /\ last' = Repo(Call("set_user", None, Some(driver_id), "Ok", None, None),
                  <<"set_user">>)
  /\ UNCHANGED <<backend, now, job_cache, sets, writes, tasks>>

\* JobService::get_job
GetJob(job_id) ==
  /\ IF ~validate_id(job_id, "Job")
     THEN last' = Call("get_job", Some(job_id), None, "Ok", None, None)
     ELSE LET read == get_job_entry(SimpleKey(job_id))
          IN  last' = Repo(Call("get_job", Some(job_id), None, "Ok", read,
                           IF read = None THEN None
                           ELSE Some(to_response(Unwrap(read)))),
                           <<"get_job">>)
  /\ UNCHANGED <<backend, now, job_cache, user_cache, sets, writes, tasks>>

\* JobService::update_job_status
UpdateJobStatus(job_id, status, driver_id) ==
  LET read == get_job_entry(SimpleKey(job_id))
  IN
  /\ IF ~validate_id(job_id, "Job")
     THEN /\ last' = Call("update_job_status", Some(job_id), None,
                          "ValidationFailed", None, None)
          /\ UNCHANGED <<job_cache, writes>>
     ELSE IF read = None
     THEN /\ last' = Repo(Call("update_job_status", Some(job_id), None,
                          "NotFound", None, None),
                          <<"get_job">>)
          /\ UNCHANGED <<job_cache, writes>>
     ELSE
       LET job0 == Unwrap(read)
           job1 == [job0 EXCEPT !.status = status, !.updated_at = now]
           job2 == CASE status = "DriverAssigned" ->
                          [job1 EXCEPT !.accepted_at = Some(now)]
                     [] status = "PackagePickedUp" ->
                          [job1 EXCEPT !.pickup_time = Some(now)]
                     [] status = "DeliveryCompleted" ->
                          [job1 EXCEPT !.dropoff_time = Some(now)]
                     [] status = "Cancelled" ->
                          [job1 EXCEPT !.cancelled_at = Some(now)]
                     [] OTHER -> job1
       IN  IF IsSome(driver_id) /\ ~validate_id(Unwrap(driver_id), "Driver")
           THEN /\ last' = Repo(Call("update_job_status", Some(job_id), driver_id,
                                "ValidationFailed", read, None),
                                <<"get_job">>)
                /\ UNCHANGED <<job_cache, writes>>
           ELSE
             LET job == IF IsSome(driver_id)
                        THEN [job2 EXCEPT !.driver_id = driver_id] ELSE job2
             IN  /\ writes < MaxWrites
                 /\ writes' = writes + 1
                 /\ job_cache' = cache_job(job)
                 /\ last' = Repo(Call("update_job_status", Some(job_id), driver_id,
                                 "Ok", read, Some(to_response(job))),
                                 <<"get_job", "cache_job">>)
  /\ UNCHANGED <<backend, now, user_cache, sets, tasks>>

\* JobService::assign_driver_to_job
AssignDriverToJob(job_id, driver_id) ==
  LET read == get_job_entry(SimpleKey(job_id))
      driver == get_user(driver_by_id(driver_id))
  IN
  /\ IF ~validate_id(job_id, "Job") \/ ~validate_id(driver_id, "Driver")
     THEN /\ last' = Call("assign_driver_to_job", Some(job_id), Some(driver_id),
                          "ValidationFailed", None, None)
          /\ UNCHANGED <<job_cache, sets, writes>>
     ELSE IF read = None \/ driver = None
     THEN /\ last' = Repo(Call("assign_driver_to_job", Some(job_id),
                               Some(driver_id), "NotFound", read, None),
                          IF read = None THEN <<"get_job">> ELSE <<"get_job", "get_user">>)
          /\ UNCHANGED <<job_cache, sets, writes>>
     ELSE
       LET job == [Unwrap(read) EXCEPT !.driver_id = Some(driver_id),
                                       !.status = "DriverAssigned",
                                       !.accepted_at = Some(now),
                                       !.updated_at = now]
       IN  /\ writes < MaxWrites
           /\ writes' = writes + 1
           /\ job_cache' = cache_job(job)
           /\ sets' = cache_driver_job(driver_id, job_id)
           /\ last' = Repo(Call("assign_driver_to_job", Some(job_id), Some(driver_id),
                           "Ok", read, Some(to_response(job))),
                           <<"get_job", "get_user", "cache_job", "cache_driver_job">>)
  /\ UNCHANGED <<backend, now, user_cache, tasks>>

\* JobService::cancel_job
CancelJob(job_id, reason) ==
  LET read == get_job_entry(SimpleKey(job_id))
  IN
  /\ IF ~validate_id(job_id, "Job")
     THEN /\ last' = Call("cancel_job", Some(job_id), None,
                          "ValidationFailed", None, None)
          /\ UNCHANGED <<job_cache, sets, writes>>
     ELSE IF read = None
     THEN /\ last' = Repo(Call("cancel_job", Some(job_id), None, "NotFound", None, None),
                          <<"get_job">>)
          /\ UNCHANGED <<job_cache, sets, writes>>
     ELSE
       LET job == [Unwrap(read) EXCEPT !.status = "Cancelled",
                                       !.cancelled_at = Some(now),
                                       !.updated_at = now,
                                       !.notes = reason]
       IN  /\ writes < MaxWrites
           /\ writes' = writes + 1
           /\ job_cache' = cache_job(job)
           /\ sets' = IF IsSome(job.driver_id)
                      THEN remove_driver_job(Unwrap(job.driver_id), job_id)
                      ELSE sets
           /\ last' = Repo(Call("cancel_job", Some(job_id), None, "Ok", read,
                           Some(to_response(job))),
                           IF IsSome(job.driver_id)
                           THEN <<"get_job", "cache_job", "remove_driver_job">>
                           ELSE <<"get_job", "cache_job">>)
  /\ UNCHANGED <<backend, now, user_cache, tasks>>

\* A faulty complete_job: it also turns the estimate into a final price
CompletedRepriced(job, t) ==
  [job EXCEPT !.status = "DeliveryCompleted",
              !.dropoff_time = Some(t),
              !.updated_at = t,
              !.payment_status = "Paid",
              !.pricing = [@ EXCEPT !.estimated_cost = FALSE]]

\* complete_job: what it changes in the record it read
Completed(job, t) ==
  [job EXCEPT !.status = "DeliveryCompleted",
              !.dropoff_time = Some(t),
              !.updated_at = t,
              !.payment_status = "Paid"]

\* JobService::complete_job
CompleteJob(job_id) ==
  LET read == get_job_entry(SimpleKey(job_id))
  IN
  /\ IF ~validate_id(job_id, "Job")
     THEN /\ last' = Call("complete_job", Some(job_id), None,
                          "ValidationFailed", None, None)
          /\ UNCHANGED <<job_cache, writes>>
     ELSE IF read = None
     THEN /\ last' = Repo(Call("complete_job", Some(job_id), None, "NotFound", None, None),
                          <<"get_job">>)
          /\ UNCHANGED <<job_cache, writes>>
     ELSE
       LET job == Completed(Unwrap(read), now)
       IN  /\ writes < MaxWrites
           /\ writes' = writes + 1
           /\ job_cache' = cache_job(job)
           /\ last' = Repo(Call("complete_job", Some(job_id), None, "Ok", read,
                           Some(to_response(job))),
                           <<"get_job", "cache_job">>)
  /\ UNCHANGED <<backend, now, user_cache, sets, tasks>>

\* The Vec that get_jobs_by_driver may return for the jobs found: every job
\* once, newest first (sort_by on created_at; SMEMBERS fixes no order among
\* jobs created at the same time)
NewestFirst(jobs) ==
  {q \in [1..Cardinality(jobs) -> jobs] :
     /\ \A i, j \in DOMAIN q : i # j => q[i] # q[j]
     /\ \A i, j \in DOMAIN q : i < j => q[i].created_at >= q[j].created_at}

\* JobService::get_jobs_by_driver
GetJobsByDriver(driver_id) ==
  /\ IF ~validate_id(driver_id, "Driver")
     THEN last' = Call("get_jobs_by_driver", None, Some(driver_id),
                       "ValidationFailed", None, None)
     ELSE LET job_ids == get_driver_jobs(driver_id)
              valid == {id \in job_ids : validate_id(id, "Job")}
              found == {to_response(Unwrap(get_job_entry(SimpleKey(id)))) :
                          id \in {x \in valid : IsSome(get_job_entry(SimpleKey(x)))}}
          IN  \E jobs \in NewestFirst(found) :
                last' = Repo(Call("get_jobs_by_driver", None, Some(driver_id),
                                  "Ok", None, Some(jobs)),
                             <<"get_driver_jobs">>
                               \o [i \in 1..Cardinality(valid) |-> "get_job"])
  /\ UNCHANGED <<backend, now, job_cache, user_cache, sets, writes, tasks>>

\* JobService::get_jobs_by_customer: the ids of the customer's index, each
\* looked up with JobService::get_job, the jobs found sorted newest first
GetJobsByCustomer(customer_id) ==
  /\ LET job_ids == get_customer_jobs(customer_id)
         valid == {id \in job_ids : validate_id(id, "Job")}
         found == {to_response(Unwrap(get_job_entry(SimpleKey(id)))) :
                     id \in {x \in valid : IsSome(get_job_entry(SimpleKey(x)))}}
     IN  \E jobs \in NewestFirst(found) :
           last' = Repo(Call("get_jobs_by_customer", None, None, "Ok", None,
                             Some(jobs)),
                        <<"get_customer_jobs">>
                          \o [i \in 1..Cardinality(valid) |-> "get_job"])
                     @@ [customer_id |-> customer_id]
  /\ UNCHANGED <<backend, now, job_cache, user_cache, sets, writes, tasks>>

\* The radius in km and the number of drivers that find_available_drivers
\* asks the driver directory for
SearchRadiusKm == 10
MaxDriversReturned == 10

\* A driver directory that returns one driver more than it was asked for
find_nearby_drivers_unbounded(latitude, longitude, radius_km, max_drivers) ==
  [i \in 1..(max_drivers + 1) |-> [id |-> Driver1]]

\* DriverService::find_nearby_drivers: no driver, whatever is asked
find_nearby_drivers(latitude, longitude, radius_km, max_drivers) == <<>>

\* A search for drivers that stores the job again
FindAvailableDriversStoring(job_id) ==
  /\ LET read == get_job_entry(SimpleKey(job_id))
     IN  /\ read # None
         /\ job_cache' = cache_job(Unwrap(read))
         /\ last' = Repo(Call("find_available_drivers", Some(job_id), None,
                              "Ok", read, Some(<<>>)),
                         <<"get_job", "cache_job">>)
  /\ UNCHANGED <<backend, now, user_cache, sets, writes, tasks>>

\* JobService::find_available_drivers: the job is read without a check of
\* the id, and the ids of the drivers of the directory are returned
FindAvailableDrivers(job_id) ==
  /\ LET read == get_job_entry(SimpleKey(job_id))
         nearby_drivers ==
           find_nearby_drivers(Unwrap(read).pickup_location.latitude,
                               Unwrap(read).pickup_location.longitude,
                               SearchRadiusKm, MaxDriversReturned)
         driver_ids == [i \in 1..Len(nearby_drivers) |-> nearby_drivers[i].id]
     IN  last' = Repo(Call("find_available_drivers", Some(job_id), None,
                           IF read = None THEN "NotFound" ELSE "Ok", read,
                           IF read = None THEN None ELSE Some(driver_ids)),
                      <<"get_job">>)
  /\ UNCHANGED <<backend, now, job_cache, user_cache, sets, writes, tasks>>

\* ------------------------------------------------------------------------
\* Repository failures.  Every call on the Redis backend ends with a
\* command sent over a connection and may return Err, which `?` propagates:
\* the operation stops at the failing call, what it wrote before stays
\* written, and the caller receives AppError::ResourceExhausted (the
\* conversion From<CacheError>).  failing names the repository call that
\* returns Err.
\* ------------------------------------------------------------------------

\* create_job when cache_job or cache_customer_job fails
CreateJobFailing(request, suffix, tracking_suffix, failing) ==
  /\ backend = "Redis"
  /\ failing \in {"cache_job", "cache_customer_job"}
  /\ writes < MaxWrites
  /\ writes' = writes + 1
  /\ Cardinality(StoredJobIds) < MaxJobs
  /\ LET job == NewJob(request, suffix, tracking_suffix)
     IN  /\ job_cache' = IF failing = "cache_job" THEN job_cache ELSE cache_job(job)
         /\ last' = Repo(Call("create_job", Some(job.id), None,
                              "ResourceExhausted", None, None),
                         IF failing = "cache_job" THEN <<"cache_job">>
                         ELSE <<"cache_job", "cache_customer_job">>)
  /\ UNCHANGED <<backend, now, user_cache, sets, tasks>>

\* assign_driver_to_job when cache_job or cache_driver_job fails
AssignDriverToJobFailing(job_id, driver_id, failing) ==
  LET read == get_job_entry(SimpleKey(job_id))
      driver == get_user(driver_by_id(driver_id))
  IN
  /\ backend = "Redis"
  /\ failing \in {"cache_job", "cache_driver_job"}
  /\ validate_id(job_id, "Job") /\ validate_id(driver_id, "Driver")
  /\ read # None /\ driver # None
  /\ writes < MaxWrites
  /\ writes' = writes + 1
  /\ LET job == [Unwrap(read) EXCEPT !.driver_id = Some(driver_id),
                                     !.status = "DriverAssigned",
                                     !.accepted_at = Some(now),
                                     !.updated_at = now]
     IN  /\ job_cache' = IF failing = "cache_job" THEN job_cache ELSE cache_job(job)
         /\ last' = Repo(Call("assign_driver_to_job", Some(job_id), Some(driver_id),
                              "ResourceExhausted", read, None),
                         IF failing = "cache_job"
                         THEN <<"get_job", "get_user", "cache_job">>
                         ELSE <<"get_job", "get_user", "cache_job", "cache_driver_job">>)
  /\ UNCHANGED <<backend, now, user_cache, sets, tasks>>

\* cancel_job when cache_job or remove_driver_job fails
CancelJobFailing(job_id, reason, failing) ==
  LET read == get_job_entry(SimpleKey(job_id))
  IN
  /\ backend = "Redis"
  /\ failing \in {"cache_job", "remove_driver_job"}
  /\ validate_id(job_id, "Job")
  /\ read # None
  /\ failing = "remove_driver_job" => IsSome(Unwrap(read).driver_id)
  /\ writes < MaxWrites
  /\ writes' = writes + 1
  /\ LET job == [Unwrap(read) EXCEPT !.status = "Cancelled",
                                     !.cancelled_at = Some(now),
                                     !.updated_at = now,
                                     !.notes = reason]
     IN  /\ job_cache' = IF failing = "cache_job" THEN job_cache ELSE cache_job(job)
         /\ last' = Repo(Call("cancel_job", Some(job_id), None,
                              "ResourceExhausted", read, None),
                         IF failing = "cache_job" THEN <<"get_job", "cache_job">>
                         ELSE <<"get_job", "cache_job", "remove_driver_job">>)
  /\ UNCHANGED <<backend, now, user_cache, sets, tasks>>

\* ------------------------------------------------------------------------
\* assign_driver_to_job, one step per suspension point (each .await on the
\* repository), run by concurrent callers
\* ------------------------------------------------------------------------

\* Up to the first await: the id checks and cache_service.get_job
AssignStart(c, job_id, driver_id) ==
  /\ tasks[c].pc = "idle"
  /\ LET read == get_job_entry(SimpleKey(job_id))
     IN  tasks' = [tasks EXCEPT ![c] =
           IF ~validate_id(job_id, "Job") \/ ~validate_id(driver_id, "Driver")
           THEN Task("done", Some(job_id), Some(driver_id), None, None,
                     "ValidationFailed")
           ELSE IF read = None
           THEN Task("done", Some(job_id), Some(driver_id), None, None, "NotFound")
           ELSE Task("get_user", Some(job_id), Some(driver_id), read, read, None)]
  /\ UNCHANGED <<backend, now, job_cache, user_cache, sets, last, writes>>

\* cache_service.get_user, then the update of the local job
AssignGetUser(c) ==
  /\ tasks[c].pc = "get_user"
  /\ LET t == tasks[c]
         driver == get_user(driver_by_id(Unwrap(t.driver_id)))
     IN  tasks' = [tasks EXCEPT ![c] =
           IF driver = None
           THEN [t EXCEPT !.pc = "done", !.res = "NotFound"]
           ELSE [t EXCEPT !.pc = "cache_job",
                          !.job = Some([Unwrap(t.job) EXCEPT
                                          !.driver_id = t.driver_id,
                                          !.status = "DriverAssigned",
                                          !.accepted_at = Some(now),
                                          !.updated_at = now])]]
  /\ UNCHANGED <<backend, now, job_cache, user_cache, sets, last, writes>>

\* cache_service.cache_job
AssignCacheJob(c) ==
  /\ tasks[c].pc = "cache_job"
  /\ writes < MaxWrites
  /\ writes' = writes + 1
  /\ job_cache' = cache_job(Unwrap(tasks[c].job))
  /\ tasks' = [tasks EXCEPT ![c].pc = "cache_driver_job"]
  /\ UNCHANGED <<backend, now, user_cache, sets, last>>

\* cache_service.cache_driver_job, and the return of Ok
AssignCacheDriverJob(c) ==
  /\ tasks[c].pc = "cache_driver_job"
  /\ sets' = cache_driver_job(Unwrap(tasks[c].driver_id), Unwrap(tasks[c].job_id))
  /\ tasks' = [tasks EXCEPT ![c].pc = "done", ![c].res = "Ok"]
  /\ UNCHANGED <<backend, now, job_cache, user_cache, last, writes>>

\* ------------------------------------------------------------------------
\* IdGenerator as pure functions: generation for every kind on sample dates,
\* parsing and validation of generated and of hand-written identifiers
\* ------------------------------------------------------------------------
\* The calendar dates of the timestamps that ids are generated for: the last
\* day of 1999, 28 February 2000, the last days of 2024 and of 2099, and the
\* day after each
SampleDates ==
  {CivilFromDays(DaysFromCivil(d[1], d[2], d[3]) + k) :
     d \in {<<1999, 12, 31>>, <<2000, 2, 28>>, <<2024, 12, 31>>, <<2099, 12, 31>>},
     k \in {0, 1}}

\* The ids that generate_with_timestamp returns for a kind
GeneratedAs(id_type) ==
  {generate_on(id_type, d, s) : d \in SampleDates, s \in Suffixes}

\* The ids at hand: the hand-written ones and the one just generated
IdInputs ==
  IdStrings \cup (IF last.op = "generate_with_timestamp" THEN {last.id} ELSE {})

\* IdGenerator::generate_with_timestamp
GenerateId(id_type, date, suffix) ==
  /\ last' = [op |-> "generate_with_timestamp", id_type |-> id_type,
               date |-> date, id |-> generate_on(id_type, date, suffix)]
  /\ UNCHANGED <<backend, now, job_cache, user_cache, sets, writes, tasks>>

\* IdGenerator::parse_id
ParseId(id) ==
  /\ last' = [op |-> "parse_id", id |-> id, parsed |-> ParsedId(id)]
  /\ UNCHANGED <<backend, now, job_cache, user_cache, sets, writes, tasks>>

\* IdGenerator::validate_id(id, expected_type)
ValidateId(id, expected_type) ==
  /\ LET parsed == ParsedId(id)
     IN  last' = IF parsed = Panic
                 THEN [op |-> "validate_id", id |-> id,
                       expected |-> expected_type,
                       valid |-> FALSE, panicked |-> TRUE]
                 ELSE [op |-> "validate_id", id |-> id,
                       expected |-> expected_type,
                       valid |-> ValidateParsed(parsed, expected_type),
                       panicked |-> FALSE]
  /\ UNCHANGED <<backend, now, job_cache, user_cache, sets, writes, tasks>>

\* JobService::calculate_estimate
CalculateEstimate(request) ==
  /\ last' = [op |-> "calculate_estimate", request |-> request, res |-> "Ok",
               pricing |-> calculate_pricing(request)]
  /\ UNCHANGED <<backend, now, job_cache, user_cache, sets, writes, tasks>>

\* IdGenerator::generate_random_suffix
GenerateRandomSuffix(coin, suffix) ==
  /\ last' = [op |-> "generate_random_suffix", coin |-> coin, suffix |-> suffix]
  /\ UNCHANGED <<backend, now, job_cache, user_cache, sets, writes, tasks>>

\* Utc.with_ymd_and_hms(year, month, day, 0, 0, 0).single(): the instant as
\* days since 1970-01-01 and seconds of the day, None when the calendar has
\* no such day
with_ymd_midnight(year, month, day) ==
  IF CivilFromDays(DaysFromCivil(year, month, day))
       = [year |-> year, month |-> month, day |-> day]
  THEN Some([days |-> DaysFromCivil(year, month, day), secs |-> 0])
  ELSE None

\* IdGenerator::parse_creation_date
parse_creation_date(id) ==
  LET parsed == parse_id(id)
  IN  IF IsSome(parsed)
      THEN LET year == 2000 + Unwrap(parsed).year
           IN  with_ymd_midnight(year, Unwrap(parsed).month, Unwrap(parsed).day)
      ELSE None

\* Utc::now(): the clock as days since 1970-01-01 and seconds of the day
UtcNow ==
  [days |-> DaysFromCivil(2024, 12, 31) + (23 * 3600 + now) \div 86400,
   secs |-> (23 * 3600 + now) % 86400]

\* current.signed_duration_since(created_at).num_days(): whole days,
\* truncated towards zero
num_days_since(current, created_at) ==
  LET days == current.days - created_at.days
      secs == current.secs - created_at.secs
  IN  IF days > 0 /\ secs < 0 THEN days - 1
      ELSE IF days < 0 /\ secs > 0 THEN days + 1
      ELSE days

\* IdGenerator::is_id_recent
is_id_recent(id, max_age_days) ==
  LET created_at == parse_creation_date(id)
  IN  IF IsSome(created_at)
      THEN Some(num_days_since(UtcNow, Unwrap(created_at)) <= max_age_days)
      ELSE None

\* The max_age_days of is_id_recent
MaxAgeInputs == {0, 1, 30}

\* IdGenerator::parse_creation_date
ParseCreationDate(id) ==
  /\ last' = [op |-> "parse_creation_date", id |-> id,
               created_at |-> parse_creation_date(id)]
  /\ UNCHANGED <<backend, now, job_cache, user_cache, sets, writes, tasks>>

\* IdGenerator::is_id_recent
IsIdRecent(id, max_age_days) ==
  /\ last' = [op |-> "is_id_recent", id |-> id, max_age_days |-> max_age_days,
               recent |-> is_id_recent(id, max_age_days)]
  /\ UNCHANGED <<backend, now, job_cache, user_cache, sets, writes, tasks>>

\* ------------------------------------------------------------------------
\* Vocabulary of the properties
\* ------------------------------------------------------------------------
TerminalStatuses == {"DeliveryCompleted", "Cancelled", "Failed", "Expired"}

LifecycleOps == {"update_job_status", "assign_driver_to_job", "cancel_job",
                 "complete_job"}

\* The position of a status in the lifecycle ordering
Rank(st) ==
  CASE st \in {"Pending", "Searching"} -> 0
    [] st = "DriverAssigned" -> 1
    [] st = "DriverEnRoute" -> 2
    [] st = "ArrivedAtPickup" -> 3
    [] st = "PackagePickedUp" -> 4
    [] st = "InTransit" -> 5
    [] st = "ArrivedAtDropoff" -> 6
    [] st = "DeliveryCompleted" -> 7
    [] OTHER -> 8

\* to is the same step as from or the next one in the ordering, or is
\* Cancelled, Failed or Expired; nothing is reachable from a terminal status
ReachableStatus(from, to) ==
  /\ from \notin TerminalStatuses
  /\ \/ to \in {"Cancelled", "Failed", "Expired"}
     \/ Rank(to) = Rank(from)
     \/ Rank(to) = Rank(from) + 1

\* The stored job of an id: the record the repository returns for the id to
\* JobService (which reads CacheKey::Simple(id)), if any
StoredJob(id) == get_job_entry(SimpleKey(id))

\* The record under the key that cache_job writes, if any
WrittenJob(id) == get_job_entry(job_by_id(id))

\* ------------------------------------------------------------------------
\* C1: a lifecycle call (update_job_status, assign_driver_to_job, cancel_job,
\* complete_job) on a job whose stored status is terminal returns an error
\* and leaves the repository's job records as they were.
\* ------------------------------------------------------------------------
C1_TerminalJobRejected ==
  [][(/\ last'.op \in LifecycleOps
      /\ IsSome(last'.read)
      /\ Unwrap(last'.read).status \in TerminalStatuses)
       => (last'.res # "Ok" /\ job_cache' = job_cache)]_vars

\* ------------------------------------------------------------------------
\* C2: complete_job on a job whose stored status is Pending returns a
\* conflict error; the job keeps status Pending, dropoff_time None and its
\* payment_status.
\* ------------------------------------------------------------------------
C2_CompletePendingConflicts ==
  [][(/\ last'.op = "complete_job"
      /\ IsSome(last'.read)
      /\ Unwrap(last'.read).status = "Pending")
       => (last'.res = "Conflict" /\ job_cache' = job_cache)]_vars

\* ------------------------------------------------------------------------
\* C3: assign_driver_to_job on a job whose driver_id is already set (the
\* job and the driver both found) returns a conflict error and does not
\* overwrite driver_id, status or accepted_at.
\* ------------------------------------------------------------------------
C3_AssignedJobNotReassigned ==
  [][(/\ last'.op = "assign_driver_to_job"
      /\ IsSome(last'.read)
      /\ IsSome(Unwrap(last'.read).driver_id)
      /\ last'.res # "NotFound")
       => (last'.res = "Conflict" /\ job_cache' = job_cache)]_vars

\* ------------------------------------------------------------------------
\* C4: update_job_status succeeds only when the requested status is
\* reachable from the job's current status in the lifecycle ordering: the
\* status never jumps over a status, never moves backwards and never leaves
\* a terminal status.  (A rejected update writes nothing.)
\* ------------------------------------------------------------------------
C4_UpdateFollowsOrdering ==
  [][(last'.op = "update_job_status" /\ IsSome(last'.read))
       => /\ last'.res = "Ok" =>
               ReachableStatus(Unwrap(last'.read).status, Unwrap(last'.resp).status)
          /\ last'.res # "Ok" => job_cache' = job_cache]_vars

\* ------------------------------------------------------------------------
\* C5: of two concurrent assign_driver_to_job calls with different drivers
\* on the same job, both of which read it as Pending, at most one returns
\* success, under every interleaving of their repository reads and writes.
\* ------------------------------------------------------------------------
C5_AtMostOneAssignmentSucceeds ==
  \A c1, c2 \in Callers :
    (/\ c1 # c2
     /\ tasks[c1].pc = "done" /\ tasks[c2].pc = "done"
     /\ tasks[c1].job_id = tasks[c2].job_id
     /\ tasks[c1].driver_id # tasks[c2].driver_id
     /\ IsSome(tasks[c1].read) /\ Unwrap(tasks[c1].read).status = "Pending"
     /\ IsSome(tasks[c2].read) /\ Unwrap(tasks[c2].read).status = "Pending"
     /\ tasks[c1].res = "Ok")
      => tasks[c2].res # "Ok"

\* ------------------------------------------------------------------------
\* C6: a successful create_job returns, and stores, a job with status
\* Pending, no driver, accepted_at, pickup_time, dropoff_time and
\* cancelled_at all None, payment_status Pending and an id that
\* validate_id accepts for type Job; the id is in the job index of the
\* request's customer.
\* ------------------------------------------------------------------------
IsFreshJob(job) ==
  /\ job.status = "Pending"
  /\ job.driver_id = None
  /\ job.pickup_time = None
  /\ job.dropoff_time = None
  /\ job.payment_status = "Pending"
  /\ validate_id(job.id, "Job")

C6_CreateJobStoresPendingJob ==
  (last.op = "create_job" /\ last.res = "Ok")
    => LET resp == Unwrap(last.resp)
           stored == StoredJob(resp.id)
       IN  /\ IsFreshJob(resp)
           /\ IsSome(stored)
           /\ IsFreshJob(Unwrap(stored))
           /\ Unwrap(stored).accepted_at = None
           /\ Unwrap(stored).cancelled_at = None
           /\ resp.id \in get_customer_jobs(resp.customer_id)

\* ------------------------------------------------------------------------
\* C7: a job that create_job has written, and that has not expired, is the
\* record that get_job and the lifecycle calls read for its id: the key
\* the job is written under is the key it is read from.
\* ------------------------------------------------------------------------
C7_WrittenJobIsRead ==
  [][(/\ last'.op \in LifecycleOps \cup {"get_job"}
      /\ IsSome(WrittenJob(Unwrap(last'.job_id)))
      /\ last'.res # "ValidationFailed")
       => last'.read = WrittenJob(Unwrap(last'.job_id))]_vars

\* ------------------------------------------------------------------------
\* C8: after a successful assign_driver_to_job(J, D) the stored job J has
\* status DriverAssigned, driver_id D and accepted_at set, and J is in the
\* job index of driver D.
\* ------------------------------------------------------------------------
C8_AssignStoresDriver ==
  (last.op = "assign_driver_to_job" /\ last.res = "Ok")
    => LET stored == StoredJob(Unwrap(last.job_id))
       IN  /\ IsSome(stored)
           /\ Unwrap(stored).status = "DriverAssigned"
           /\ Unwrap(stored).driver_id = last.driver_id
           /\ IsSome(Unwrap(stored).accepted_at)
           /\ Unwrap(last.job_id) \in get_driver_jobs(Unwrap(last.driver_id))

\* ------------------------------------------------------------------------
\* C9: assign_driver_to_job succeeds only on a job whose stored status is
\* Pending or Searching; on any other status it is rejected and writes
\* nothing.
\* ------------------------------------------------------------------------
C9_AssignOnlyFromPendingOrSearching ==
  [][(/\ last'.op = "assign_driver_to_job"
      /\ IsSome(last'.read)
      /\ Unwrap(last'.read).status \notin {"Pending", "Searching"})
       => (last'.res # "Ok" /\ job_cache' = job_cache /\ sets' = sets)]_vars

\* ------------------------------------------------------------------------
\* C10: after a successful cancel_job on a non-terminal job the stored job
\* has status Cancelled and cancelled_at set, and the job id is not in the
\* job index of the driver the job had.
\* ------------------------------------------------------------------------
C10_CancelStoresCancelled ==
  (/\ last.op = "cancel_job" /\ last.res = "Ok"
   /\ Unwrap(last.read).status \notin TerminalStatuses)
    => LET stored == StoredJob(Unwrap(last.job_id))
           had == Unwrap(last.read).driver_id
       IN  /\ IsSome(stored)
           /\ Unwrap(stored).status = "Cancelled"
           /\ IsSome(Unwrap(stored).cancelled_at)
           /\ IsSome(had) =>
                Unwrap(last.job_id) \notin get_driver_jobs(Unwrap(had))

\* ------------------------------------------------------------------------
\* C11: an operation of JobService that is given a job_id or driver_id
\* (get_job, get_jobs_by_driver, update_job_status, assign_driver_to_job,
\* find_available_drivers, cancel_job, complete_job) performs no repository
\* read or write when an identifier it was given fails validate_id for its
\* type, and returns no job.
\* ------------------------------------------------------------------------
IdOps == {"get_job", "get_jobs_by_driver", "update_job_status",
          "assign_driver_to_job", "find_available_drivers", "cancel_job",
          "complete_job"}

\* An identifier the call was given fails validate_id for its type
InvalidArgs(call) ==
  \/ IsSome(call.job_id) /\ ~validate_id(Unwrap(call.job_id), "Job")
  \/ IsSome(call.driver_id) /\ ~validate_id(Unwrap(call.driver_id), "Driver")

C11_InvalidIdTouchesNoRepository ==
  [][(last'.op \in IdOps /\ InvalidArgs(last'))
       => /\ last'.repo = <<>>
          /\ last'.resp = None
          /\ job_cache' = job_cache /\ sets' = sets]_vars

\* The record a call has written: the one under the key of cache_job
Written(call) == Unwrap(WrittenJob(Unwrap(call.job_id)))

\* The job records that the repository holds, under any key
JobRecords ==
  {job_cache[k].val : k \in {x \in DOMAIN job_cache : Live(job_cache[x])}}

\* ------------------------------------------------------------------------
\* C12: no operation sets driver_id while the job is still Pending or
\* Searching: a successful lifecycle call on a job read as Pending or
\* Searching with no driver, which leaves it Pending or Searching, writes
\* and returns it with driver_id None.
\* ------------------------------------------------------------------------
C12_NoDriverWhilePending ==
  [][(/\ last'.op \in LifecycleOps /\ last'.res = "Ok"
      /\ Unwrap(last'.read).status \in {"Pending", "Searching"}
      /\ Unwrap(last'.read).driver_id = None
      /\ Unwrap(last'.resp).status \in {"Pending", "Searching"})
       => /\ Unwrap(last'.resp).driver_id = None
          /\ Written(last)'.driver_id = None]_vars

\* ------------------------------------------------------------------------
\* C13: driver_id is write-once: a successful update_job_status,
\* assign_driver_to_job, cancel_job or complete_job on a job whose driver_id
\* is set writes the job with the same driver_id.
\* ------------------------------------------------------------------------
C13_DriverIdWriteOnce ==
  [][(/\ last'.op \in LifecycleOps /\ last'.res = "Ok"
      /\ IsSome(Unwrap(last'.read).driver_id))
       => Written(last)'.driver_id = Unwrap(last'.read).driver_id]_vars

\* ------------------------------------------------------------------------
\* C14: accepted_at, pickup_time, dropoff_time and cancelled_at are set
\* once: a successful lifecycle call on a job that has one of them set
\* writes the job with that timestamp unchanged.
\* ------------------------------------------------------------------------
C14_TimestampsSetOnce ==
  [][(last'.op \in LifecycleOps /\ last'.res = "Ok")
       => LET before == Unwrap(last'.read)
              after == Written(last)'
          IN  /\ IsSome(before.accepted_at) => after.accepted_at = before.accepted_at
              /\ IsSome(before.pickup_time) => after.pickup_time = before.pickup_time
              /\ IsSome(before.dropoff_time) =>
                    after.dropoff_time = before.dropoff_time
              /\ IsSome(before.cancelled_at) =>
                    after.cancelled_at = before.cancelled_at]_vars

\* ------------------------------------------------------------------------
\* C15: in every state, a job record with status DeliveryCompleted has
\* payment_status Paid and dropoff_time set.
\* ------------------------------------------------------------------------
C15_CompletedJobIsPaid ==
  \A job \in JobRecords :
    job.status = "DeliveryCompleted"
      => job.payment_status = "Paid" /\ IsSome(job.dropoff_time)

\* ------------------------------------------------------------------------
\* C16: in every state, a job record with status DeliveryCompleted has
\* pickup_time set and driver_id set: the job was picked up by a driver
\* before it was delivered.
\* ------------------------------------------------------------------------
C16_CompletedJobWasPickedUp ==
  \A job \in JobRecords :
    job.status = "DeliveryCompleted"
      => IsSome(job.pickup_time) /\ IsSome(job.driver_id)

\* ------------------------------------------------------------------------
\* C17: a successful update_job_status, assign_driver_to_job, cancel_job or
\* complete_job writes, and returns, the job with the id, tracking_code,
\* customer_id, priority, locations, package, estimated distance and
\* duration, created_at, expires_at and pricing of the record it read.
\* ------------------------------------------------------------------------
CreationFields(job) ==
  [id |-> job.id, tracking_code |-> job.tracking_code,
   customer_id |-> job.customer_id, priority |-> job.priority,
   pickup_location |-> job.pickup_location,
   dropoff_location |-> job.dropoff_location, package |-> job.package,
   estimated_distance_km |-> job.estimated_distance_km,
   estimated_duration_min |-> job.estimated_duration_min,
   created_at |-> job.created_at, expires_at |-> job.expires_at,
   pricing |-> job.pricing]

C17_LifecycleKeepsCreationFields ==
  [][(last'.op \in LifecycleOps /\ last'.res = "Ok")
       => LET before == Unwrap(last'.read)
              after == Written(last)'
              resp == Unwrap(last'.resp)
          IN  /\ CreationFields(after) = CreationFields(before)
              /\ resp.id = before.id
              /\ resp.tracking_code = before.tracking_code
              /\ resp.pricing = before.pricing]_vars

\* complete_job has succeeded on a job that was not yet completed, and has
\* written the changed record, whose pricing is that of a priced job
C17_Witness ==
  /\ last.op = "complete_job" /\ last.res = "Ok"
  /\ Unwrap(last.read).status # "DeliveryCompleted"
  /\ Written(last).status = "DeliveryCompleted"
  /\ FGt(Written(last).pricing.total, Written(last).pricing.base_fare)

\* ------------------------------------------------------------------------
\* C18: the tracking_code of a created job is determined by the job's id:
\* it is the id with "job-" replaced by the fixed prefix "GH", so its date
\* and suffix are those of the id.
\* ------------------------------------------------------------------------
C18_TrackingCodeFromId ==
  (last.op = "create_job" /\ last.res = "Ok")
    => LET resp == Unwrap(last.resp)
       IN  /\ SubSeq(resp.tracking_code, 1, 2) = <<"G", "H">>
           /\ resp.tracking_code
                = Replace(resp.id, <<"j", "o", "b", "-">>, <<"G", "H">>)

\* ------------------------------------------------------------------------
\* C19: for every kind and timestamp, an id that generate_with_timestamp
\* produces for the kind is accepted by validate_id for that kind, and
\* parse_id returns Some with id_type the kind.
\* ------------------------------------------------------------------------
C19_GeneratedIdValidates ==
  \A k \in IdTypes :
    /\ (last.op = "validate_id" /\ last.id \in GeneratedAs(k)
          /\ last.expected = Some(k))
         => last.valid
    /\ (last.op = "parse_id" /\ last.id \in GeneratedAs(k))
         => IsSome(last.parsed) /\ Unwrap(last.parsed).id_type = k

\* validate_id has accepted an id generated on the first day of 2100 for
\* the kind SupportTicket
C19_Witness ==
  /\ last.op = "validate_id" /\ last.expected = Some("SupportTicket")
  /\ last.valid
  /\ last.id \in {generate_on("SupportTicket",
                                [year |-> 2100, month |-> 1, day |-> 1], s) :
                     s \in Suffixes}

\* ------------------------------------------------------------------------
\* C20: parse_id returns None for every id that is not made of exactly
\* three '-'-separated fields with a known prefix, a date field of exactly
\* six decimal digits and a suffix of exactly five characters, or whose
\* month is outside 1..12 or day outside 1..31.
\* ------------------------------------------------------------------------
\* The format of the claim
HasIdFormat(id) ==
  LET parts == Split(id)
  IN  /\ Len(parts) = 3
      /\ \E t \in IdTypes : to_prefix(t) = parts[1]
      /\ Len(parts[2]) = 6 /\ AllDigits(parts[2])
      /\ Len(parts[3]) = 5
      /\ DigitsVal(SubSeq(parts[2], 3, 4), 0) \in 1..12
      /\ DigitsVal(SubSeq(parts[2], 5, 6), 0) \in 1..31

C20_ParseRejectsMalformed ==
  (last.op = "parse_id" /\ ~HasIdFormat(last.id)) => last.parsed = None

\* ------------------------------------------------------------------------
\* C21: for every kind and every timestamp with year in 2000..2099, parse_id
\* of the id that generate_with_timestamp produced yields the kind, the
\* four-digit year, the month and the day of the timestamp, and a
\* random_suffix of length 5.
\* ------------------------------------------------------------------------
C21_ParseRoundTrip ==
  [][(/\ last.op = "generate_with_timestamp"
      /\ last.date.year \in 2000..2099
      /\ last'.op = "parse_id" /\ last'.id = last.id)
       => /\ IsSome(last'.parsed)
          /\ LET parsed == Unwrap(last'.parsed)
             IN  /\ parsed.id_type = last.id_type
                 /\ parsed.year = last.date.year
                 /\ parsed.month = last.date.month
                 /\ parsed.day = last.date.day
                 /\ Len(parsed.random_suffix) = 5]_vars

\* parse_id has returned 29 February 2000 for a Reward id generated on that
\* day
C21_Witness ==
  /\ last.op = "parse_id"
  /\ last.id \in {generate_on("Reward", [year |-> 2000, month |-> 2, day |-> 29], s) :
                     s \in Suffixes}
  /\ IsSome(last.parsed)
  /\ Unwrap(last.parsed).year = 2000 /\ Unwrap(last.parsed).month = 2
  /\ Unwrap(last.parsed).day = 29

\* ------------------------------------------------------------------------
\* C22: for an id generated at a timestamp, parse_creation_date returns
\* midnight UTC of the timestamp's calendar date, and is_id_recent(id, n) is
\* true exactly when the whole days from that midnight to the current time
\* are at most n. Stated for the timestamps whose year the two digits of
\* the id determine, 2000..2099.
\* ------------------------------------------------------------------------
C22_CreationDateIsGenerationDate ==
  [][(/\ last.op = "generate_with_timestamp"
      /\ last.date.year \in 2000..2099
      /\ last'.op \in {"parse_creation_date", "is_id_recent"}
      /\ last'.id = last.id)
       => LET generated == [days |-> DaysFromCivil(last.date.year, last.date.month,
                                                   last.date.day),
                            secs |-> 0]
          IN  /\ last'.op = "parse_creation_date"
                   => last'.created_at = Some(generated)
              /\ last'.op = "is_id_recent"
                   => last'.recent
                        = Some(num_days_since(UtcNow, generated)
                                 <= last'.max_age_days)]_vars

\* ------------------------------------------------------------------------
\* C23: validate_id(id, Some(kind)) is true exactly when parse_id(id) is
\* Some with id_type the kind, and validate_id(id, None) exactly when
\* parse_id(id) is Some: an id of one kind never validates as another kind
\* and an id that does not parse never validates.
\* ------------------------------------------------------------------------
C23_ValidateIsParse ==
  last.op = "validate_id"
    => LET parsed == parse_id(last.id)
       IN  last.valid
             = (/\ IsSome(parsed)
                /\ IsSome(last.expected)
                     => Unwrap(parsed).id_type = Unwrap(last.expected))

\* validate_id has refused the User id "usr-231207-a1b2c" as a Driver id
C23_Witness ==
  /\ last.op = "validate_id"
  /\ last.id = <<"u", "s", "r", "-", "2", "3", "1", "2", "0", "7", "-",
                 "a", "1", "b", "2", "c">>
  /\ last.expected = Some("Driver")
  /\ ~last.valid

\* ------------------------------------------------------------------------
\* C24: every suffix that generate_random_suffix produces has length 5, is
\* 3 hex characters followed by 2 alphanumeric characters or 3 alphanumeric
\* followed by 2 hex, and contains a lowercase hex letter a-f as well as an
\* alphanumeric character.
\* ------------------------------------------------------------------------
IsHexChar(c) == \E i \in 1..Len(HEX_CHARS) : HEX_CHARS[i] = c

IsAlphanumericChar(c) ==
  \E i \in 1..Len(ALPHANUMERIC_CHARS) : ALPHANUMERIC_CHARS[i] = c

\* c.is_ascii_hexdigit() && c.is_ascii_lowercase()
IsLowercaseHexLetter(c) == c \in {"a", "b", "c", "d", "e", "f"}

C24_SuffixShape ==
  last.op = "generate_random_suffix"
    => LET suffix == last.suffix
       IN  /\ Len(suffix) = 5
           /\ \/ /\ \A i \in 1..3 : IsHexChar(suffix[i])
                 /\ \A i \in 4..5 : IsAlphanumericChar(suffix[i])
              \/ /\ \A i \in 1..3 : IsAlphanumericChar(suffix[i])
                 /\ \A i \in 4..5 : IsHexChar(suffix[i])
           /\ \E i \in 1..5 : IsLowercaseHexLetter(suffix[i])
           /\ \E i \in 1..5 : IsAlphanumericChar(suffix[i])

C26_FareBreakdown ==
  last.op = "calculate_estimate"
    => LET pricing == last.pricing
           subtotal == Subtotal(pricing.base_fare, pricing.distance_fare,
                                pricing.time_fare, pricing.package_surcharge,
                                pricing.priority_surcharge)
       IN  /\ pricing.base_fare = BaseFare(last.request.priority)
           /\ pricing.priority_surcharge = PrioritySurcharge(last.request.priority)
           /\ pricing.package_surcharge
                = PackageSurcharge(last.request.package.package_type)
           /\ FEq(FScale(pricing.service_fee, 10, 1), subtotal)
           /\ FEq(FScale(pricing.tax, 100, 1), FScale(subtotal, 3, 1))
           /\ FEq(pricing.total,
                  FAdd(FAdd(subtotal, pricing.service_fee), pricing.tax))
           /\ FGt(pricing.total, pricing.base_fare)

\* ------------------------------------------------------------------------
\* C27: every successful assign_driver_to_job calls the driver-assigned
\* notification, and every successful update_job_status and complete_job
\* calls a customer notification.
\* ------------------------------------------------------------------------
C27_TransitionNotifies ==
  /\ (last.op = "assign_driver_to_job" /\ last.res = "Ok")
       => \E i \in 1..Len(last.notified) :
            last.notified[i] = "notify_driver_assigned"
  /\ (last.op \in {"update_job_status", "complete_job"} /\ last.res = "Ok")
       => \E i \in 1..Len(last.notified) :
            last.notified[i] \in {"notify_package_picked_up",
                                   "notify_delivery_completed",
                                   "notify_ride_status_update"}

C29_FindDriversReadOnly ==
  [][last'.op = "find_available_drivers"
       => /\ job_cache' = job_cache
          /\ sets' = sets
          /\ user_cache' = user_cache]_vars

\* find_available_drivers has found the job, in a repository that holds
\* job records and an index
C29_Witness ==
  /\ last.op = "find_available_drivers" /\ last.res = "Ok"
  /\ JobRecords # {}
  /\ DOMAIN sets # {}

C31_JobNeverDeleted ==
  [][\A job \in JobRecords :
       WrittenJob(job.id) # None => WrittenJob(job.id)' # None]_vars

\* ------------------------------------------------------------------------
\* C32: update_job_status, assign_driver_to_job, cancel_job and
\* complete_job called with a well-formed job id for which no record exists
\* return NotFound and write nothing; assign_driver_to_job with a
\* well-formed driver id for which no driver record exists returns NotFound
\* and leaves the job unchanged.
\* ------------------------------------------------------------------------
C32_MissingIsNotFound ==
  [][(last'.op \in LifecycleOps /\ ~InvalidArgs(last'))
       => /\ (\A job \in JobRecords : job.id # Unwrap(last'.job_id))
               => /\ last'.res = "NotFound"
                  /\ job_cache' = job_cache /\ sets' = sets
          /\ (/\ last'.op = "assign_driver_to_job"
              /\ StoredJob(Unwrap(last'.job_id)) # None
              /\ CacheGet(user_cache, driver_by_id(Unwrap(last'.driver_id)))
                   = None)
               => /\ last'.res = "NotFound"
                  /\ job_cache' = job_cache /\ sets' = sets]_vars

\* cancel_job was called for a job id that has no record, in a repository
\* that holds other records, and returned NotFound
C32_Witness ==
  /\ last.op = "cancel_job" /\ last.job_id = Some(UnknownJobId)
  /\ last.res = "NotFound"
  /\ JobRecords # {}

\* ------------------------------------------------------------------------
\* C33: parse_id and validate_id never panic: for every input string, with
\* multi-byte characters inside the date field among them, they return
\* Some or None, true or false.
\* ------------------------------------------------------------------------
C33_ParseNeverPanics ==
  /\ last.op = "parse_id" => last.parsed # Panic
  /\ last.op = "validate_id" => ~last.panicked

\* ------------------------------------------------------------------------
\* C34: lifecycle calls on one job that run one after another: the call
\* that follows a successful update_job_status, assign_driver_to_job,
\* cancel_job or complete_job on the same job reads the record that this
\* previous call wrote, with all its fields.
\* ------------------------------------------------------------------------
C34_NextCallReadsPreviousWrite ==
  [][(/\ last.op \in LifecycleOps /\ last.res = "Ok"
      /\ last'.op \in LifecycleOps /\ last'.job_id = last.job_id
      /\ last'.res # "ValidationFailed")
       => last'.read = WrittenJob(Unwrap(last.job_id))]_vars

\* ------------------------------------------------------------------------
\* C35: driver index consistency.  A job id in the job index of driver D
\* is the id of a stored job whose driver_id is D, and no job id is in the
\* job indices of two different drivers.
\* ------------------------------------------------------------------------
C35_DriverIndexConsistent ==
  \A d \in Drivers : \A j \in get_driver_jobs(d) :
    /\ IsSome(WrittenJob(j)) => Unwrap(WrittenJob(j)).driver_id = Some(d)
    /\ \A other \in Drivers \ {d} : j \notin get_driver_jobs(other)

\* ------------------------------------------------------------------------
\* C36: a completed cancellation is not lost under concurrency.  After a
\* cancel_job call on job J has returned Ok, and while the callers of
\* assign_driver_to_job that are under way go on (some of them have read J
\* before the cancellation wrote it, and write afterwards), the stored
\* status of J is Cancelled.
\* ------------------------------------------------------------------------
C36_CancelNotLost ==
  (last.op = "cancel_job" /\ last.res = "Ok" /\ IsSome(WrittenJob(Unwrap(last.job_id))))
    => Written(last).status = "Cancelled"

\* ------------------------------------------------------------------------
\* C37: the operations that make two repository writes are all-or-nothing.
\* When create_job, assign_driver_to_job or cancel_job returns an error
\* because a repository call failed, the job records and the customer and
\* driver indices are as they were before the call.
\* ------------------------------------------------------------------------
C37_FailedCallWritesNothing ==
  [][(/\ last'.op \in {"create_job", "assign_driver_to_job", "cancel_job"}
      /\ last'.res = "ResourceExhausted")
       => (job_cache' = job_cache /\ sets' = sets)]_vars

\* ------------------------------------------------------------------------
\* C38: update_job_status on a stored job, with a valid job id and a
\* driver_id that is not a valid Driver id, returns a validation error and
\* writes nothing: the status and timestamps set on the copy before the
\* driver_id check do not reach the repository.
\* ------------------------------------------------------------------------
C38_InvalidDriverWritesNothing ==
  [][(/\ last'.op = "update_job_status"
      /\ last'.driver_id = Some(NotADriverId)
      /\ IsSome(StoredJob(Unwrap(last'.job_id))))
       => /\ last'.res = "ValidationFailed"
          /\ job_cache' = job_cache /\ sets' = sets]_vars

\* update_job_status was called for a stored Pending job with a driver_id
\* of the wrong kind and returned the validation error after reading the job
C38_Witness ==
  /\ last.op = "update_job_status" /\ last.driver_id = Some(NotADriverId)
  /\ last.res = "ValidationFailed"
  /\ last.repo = <<"get_job">>
  /\ IsSome(last.read) /\ Unwrap(last.read).status = "Pending"
  /\ StoredJob(Unwrap(last.job_id)) = last.read

\* ------------------------------------------------------------------------
\* C39: cancel_job changes only status, cancelled_at and updated_at of the
\* job: the record that a successful cancel_job stores agrees with the
\* record it read in every other field, the customer's notes among them,
\* whether a reason is given or not.
\* ------------------------------------------------------------------------
C39_CancelKeepsOtherFields ==
  [][(last'.op = "cancel_job" /\ last'.res = "Ok")
       => LET read == Unwrap(last'.read)
          IN  [Written(last)' EXCEPT !.status = read.status,
                                     !.cancelled_at = read.cancelled_at,
                                     !.updated_at = read.updated_at] = read]_vars

\* ------------------------------------------------------------------------
\* C40: get_jobs_by_customer(C) returns exactly the jobs whose ids are in
\* C's customer index and whose records exist, each once and each with
\* customer_id C, ordered by created_at from newest to oldest; called
\* after a successful create_job for C, it returns the new job among them.
\* ------------------------------------------------------------------------
C40_CustomerJobsListed ==
  [][last'.op = "get_jobs_by_customer"
       => LET jobs == Unwrap(last'.resp)
              ids == {jobs[i].id : i \in DOMAIN jobs}
          IN  /\ ids = {id \in get_customer_jobs(last'.customer_id) :
                          IsSome(WrittenJob(id))}
              /\ \A i \in DOMAIN jobs : jobs[i].customer_id = last'.customer_id
              /\ \A i, j \in DOMAIN jobs :
                   i < j => /\ jobs[i].id # jobs[j].id
                            /\ jobs[i].created_at >= jobs[j].created_at
              /\ (/\ last.op = "create_job" /\ last.res = "Ok"
                  /\ Unwrap(last.resp).customer_id = last'.customer_id)
                   => Unwrap(last.job_id) \in ids]_vars

Next ==
  \/ Tick
  \/ \E r \in Requests, s, ts \in generate_random_suffix(TRUE) :
       CreateJob(r, s, ts)
  \/ \E k \in DOMAIN job_cache : SetJob(k)
  \/ \E d \in Drivers : SetUser(d)
  \/ \E j \in JobIdInputs : GetJob(j)
  \/ \E j \in JobIdInputs, st \in StatusInputs : UpdateJobStatus(j, st, None)
  \/ \E j \in JobIdInputs, st \in StatusWithDriverInputs, d \in UpdateDriverInputs :
       UpdateJobStatus(j, st, d)
  \/ \E j \in JobIdInputs, d \in DriverIdInputs : AssignDriverToJob(j, d)
  \/ \E j \in JobIdInputs, r \in ReasonInputs : CancelJob(j, r)
  \/ \E j \in JobIdInputs : CompleteJob(j)
  \/ GetJob(BadJobId)
  \/ UpdateJobStatus(BadJobId, "Cancelled", None)
  \/ AssignDriverToJob(BadJobId, Driver1)
  \/ CancelJob(BadJobId, None)
  \/ CompleteJob(BadJobId)
  \/ UpdateJobStatus(UnknownJobId, "Cancelled", None)
  \/ AssignDriverToJob(UnknownJobId, Driver1)
  \/ CancelJob(UnknownJobId, None)
  \/ CompleteJob(UnknownJobId)
  \/ \E d \in {Driver2, NotADriverId} : GetJobsByDriver(d)
  \/ \E j \in JobIdInputs \cup {BadJobId} : FindAvailableDrivers(j)

Spec == Init /\ [][Next]_vars

\* Concurrent callers of assign_driver_to_job, interleaved at the awaits
NextInterleaved ==
  \/ \E r \in Requests, s, ts \in generate_random_suffix(TRUE) :
       CreateJob(r, s, ts)
  \/ \E k \in DOMAIN job_cache : SetJob(k)
  \/ \E d \in Drivers : SetUser(d)
  \/ \E c \in Callers, j \in JobIdInputs, d \in DriverIdInputs : AssignStart(c, j, d)
  \/ \E c \in Callers : AssignStart(c, BadJobId, Driver1)
  \/ \E c \in Callers : AssignGetUser(c)
  \/ \E c \in Callers : AssignCacheJob(c)
  \/ \E c \in Callers : AssignCacheDriverJob(c)
  \/ \E j \in JobIdInputs, r \in ReasonInputs : CancelJob(j, r)

SpecInterleaved == Init /\ [][NextInterleaved]_vars

\* The operations that write twice, with and without repository failures
NextFailing ==
  \/ \E r \in Requests, s, ts \in generate_random_suffix(TRUE) :
       CreateJob(r, s, ts)
  \/ \E k \in DOMAIN job_cache : SetJob(k)
  \/ \E d \in Drivers : SetUser(d)
  \/ \E j \in JobIdInputs, d \in DriverIdInputs : AssignDriverToJob(j, d)
  \/ \E j \in JobIdInputs, r \in ReasonInputs : CancelJob(j, r)
  \/ \E r \in Requests, s, ts \in generate_random_suffix(TRUE) :
       \E f \in {"cache_job", "cache_customer_job"} : CreateJobFailing(r, s, ts, f)
  \/ \E j \in JobIdInputs, d \in DriverIdInputs :
       \E f \in {"cache_job", "cache_driver_job"} : AssignDriverToJobFailing(j, d, f)
  \/ \E j \in JobIdInputs, r \in ReasonInputs :
       \E f \in {"cache_job", "remove_driver_job"} : CancelJobFailing(j, r, f)

SpecFailing == Init /\ [][NextFailing]_vars

\* Creation and reads, with every outcome of the two random suffixes that
\* create_job draws
NextCreate ==
  \/ Tick
  \/ \E r \in Requests, s, ts \in Suffixes : CreateJob(r, s, ts)
  \/ \E k \in DOMAIN job_cache : SetJob(k)
  \/ \E j \in JobIdInputs : GetJob(j)
  \/ \E j \in JobIdInputs : FindAvailableDrivers(j)
  \/ \E c \in Customers : GetJobsByCustomer(c)

SpecCreate == Init /\ [][NextCreate]_vars

\* The identifier functions applied to their inputs
NextIds ==
  \/ \E k \in IdTypes, d \in SampleDates, s \in Suffixes : GenerateId(k, d, s)
  \/ \E id \in IdInputs : ParseId(id)
  \/ \E id \in IdInputs, e \in {None} \cup {Some(k) : k \in IdTypes} :
       ValidateId(id, e)

SpecIds == Init /\ [][NextIds]_vars

\* The identifier functions applied to strings with multi-byte characters
NextBytes ==
  \/ \E id \in MultiByteIds \cup IdStrings : ParseId(id)
  \/ \E id \in MultiByteIds \cup IdStrings,
        e \in {None} \cup {Some(k) : k \in IdTypes} : ValidateId(id, e)

SpecBytes == Init /\ [][NextBytes]_vars

\* The creation date of identifiers against the clock
NextDates ==
  \/ Tick
  \/ \E k \in IdTypes, d \in SampleDates, s \in Suffixes : GenerateId(k, d, s)
  \/ \E id \in IdInputs : ParseCreationDate(id)
  \/ \E id \in IdInputs, n \in MaxAgeInputs : IsIdRecent(id, n)

SpecDates == Init /\ [][NextDates]_vars

\* The random suffix on its own
NextSuffix ==
  \E coin \in BOOLEAN :
    \E suffix \in RandomSuffixes(SuffixDraws, coin) :
      GenerateRandomSuffix(coin, suffix)

SpecSuffix == Init /\ [][NextSuffix]_vars

\* The two call paths of pricing
NextPricing ==
  \/ \E r \in EstimateRequests : CalculateEstimate(r)
  \/ \E r \in PricedRequests, s, ts \in generate_random_suffix(TRUE) :
       CreateJob(r, s, ts)

SpecPricing == Init /\ [][NextPricing]_vars

====
